---- MODULE Spec2Model ----
(***************************************************************************)
(* A model of mergecap (src/mergecap.cpp): main, get_first_timestamp,      *)
(* copy_file and pcap::files, over a small file system.                    *)
(*                                                                         *)
(* Unsigned integers wider than TLC's own are kept as little-endian        *)
(* sequences of base-256 digits, so that uint32_t is four digits and       *)
(* uint64_t eight, and a conversion to a width is a cut to that many       *)
(* digits.                                                                 *)
(***************************************************************************)
EXTENDS Integers, Sequences, FiniteSets, TLC

VARIABLES
  pc,          \* position of main: start, open_out, opendir, scan, probe,
               \* copy, mmap, write, exit (idle: main is not run)
  argc,        \* number of arguments main was started with
  dir,         \* the entries of the directory argv[1]
  outPath,     \* the file argv[2] names: 0 (outside the directory) or an entry
  fs,          \* the file system: file -> [exists, kind, data]
  unread,      \* entries readdir has not returned yet
  cur,         \* the entry whose header is being probed (0: none)
  files,       \* pcap::files, the entries in use: <<[filename, filesize, timestamp]>>
  filesize,    \* main's filesize: size of the output file
  idx,         \* main's copy loop index i
  written,     \* copy_file's written
  outOff,      \* file offset of the output descriptor
  open,        \* open resources: [out, in, dir, map] -> count
  exitStatus,  \* what main returned (0 while running)
  diag,        \* the diagnostic printed to stderr ("" : none)
  ret,         \* kind of the last return of write(): none, pos, eintr, error, zero
  created,     \* open(argv[2], O_CREAT | O_TRUNC | O_WRONLY) succeeded
  presize,     \* the length ftruncate set (-1: not yet)
  scanned,     \* entries readdir returned and the loop body has dealt with
  allocFailed, \* files.add returned false
  readdirFailed, \* readdir returned NULL because of an error, entries left
  ts           \* the timestamp check: [phase, a, b, ta, tb, cmp]

vars == <<pc, argc, dir, outPath, fs, unread, cur, files, filesize, idx,
          written, outOff, open, exitStatus, diag, ret, created, presize,
          scanned, allocFailed, readdirFailed, ts>>

mainVars == <<pc, argc, dir, outPath, fs, unread, cur, files, filesize, idx,
              written, outOff, open, exitStatus, diag, ret, created, presize,
              scanned, allocFailed, readdirFailed>>

----------------------------------------------------------------------------
(* Bounds *)

\* Largest number of entries in the input directory.
MaxEntries == 2

\* Number of bytes a short write() transfers.
ShortWrite == 16

----------------------------------------------------------------------------
(* Unsigned arithmetic on little-endian base-256 digit sequences *)

Digit(a, k) == IF k <= Len(a) THEN a[k] ELSE 0

\* The value cut to n digits: the conversion to an unsigned type of n bytes.
Trunc(a, n) == [k \in 1..n |-> Digit(a, k)]

RECURSIVE Norm(_)
Norm(a) == IF a = <<>> THEN <<>>
           ELSE IF a[Len(a)] = 0 THEN Norm(SubSeq(a, 1, Len(a) - 1))
           ELSE a

RECURSIVE AddC(_, _, _)
AddC(a, b, c) ==
  IF a = <<>> /\ b = <<>>
  THEN IF c = 0 THEN <<>> ELSE <<c>>
  ELSE LET d == Digit(a, 1) + Digit(b, 1) + c
       IN  <<d % 256>> \o AddC(IF a = <<>> THEN <<>> ELSE Tail(a),
                                IF b = <<>> THEN <<>> ELSE Tail(b),
                                d \div 256)

Add(a, b) == AddC(a, b, 0)

RECURSIVE MulDigit(_, _, _)
MulDigit(a, d, c) ==
  IF a = <<>>
  THEN IF c = 0 THEN <<>> ELSE <<c % 256>> \o MulDigit(<<>>, d, c \div 256)
  ELSE LET t == Head(a) * d + c
       IN  <<t % 256>> \o MulDigit(Tail(a), d, t \div 256)

RECURSIVE Mul(_, _)
Mul(a, b) == IF b = <<>> THEN <<>>
             ELSE Add(MulDigit(a, Head(b), 0), <<0>> \o Mul(a, Tail(b)))

\* a < b for two values of the same number of digits.
RECURSIVE Less(_, _)
Less(a, b) ==
  IF a = <<>> THEN FALSE
  ELSE LET n == Len(a)
       IN  IF a[n] # b[n] THEN a[n] < b[n]
           ELSE Less(SubSeq(a, 1, n - 1), SubSeq(b, 1, n - 1))

\* The uint32_t whose high and low 16 bits are hi and lo.
U32(hi, lo) == <<lo % 256, lo \div 256, hi % 256, hi \div 256>>

\* 1000000ull
Million == <<64, 66, 15, 0, 0, 0, 0, 0>>

----------------------------------------------------------------------------
(* Program constants *)

\* sizeof(pcap::pcap_file_header)
FileHeaderSize == 24

\* sizeof(pcap::pcap_pkthdr)
PktHeaderSize == 16

minimum_size == FileHeaderSize + PktHeaderSize

version_major == 2

version_minor == 4

\* pcap::magic::microseconds = 0xa1b2c3d4, pcap::magic::nanoseconds = 0xa1b23c4d
magic_microseconds == U32(41394, 50132)

magic_nanoseconds == U32(41394, 15437)

----------------------------------------------------------------------------
(* The files the directory may hold.  A file's name is its d_name, one     *)
(* character per element; its header fields are what its first 40 bytes    *)
(* hold; canOpen and readLen are what open() and read() answer for it.     *)

File(name, kind, size, magic, vmaj, vmin, sec, usec, canOpen, readLen) ==
  [name |-> name, kind |-> kind, size |-> size, magic |-> magic,
   vmaj |-> vmaj, vmin |-> vmin, sec |-> sec, usec |-> usec,
   canOpen |-> canOpen, readLen |-> readLen]

Pool ==
  <<File(<<"a", ".", "p", "c", "a", "p">>, "reg", 42, magic_microseconds, 2, 4,
         U32(0, 10), U32(7, 41248), TRUE, 40),            \* ts (10, 500000)
    File(<<"N", ".", "P", "C", "A", "P">>, "reg", 41, magic_nanoseconds, 2, 4,
         U32(0, 5), U32(15258, 51711), TRUE, 40),         \* ts (5, 999999999)
    File(<<"t", ".", "P", "c", "A", "p">>, "reg", 43, magic_microseconds, 2, 4,
         U32(0, 10), U32(7, 41248), TRUE, 40),            \* ties with the first
    File(<<"s", ".", "p", "c", "a", "p">>, "reg", 40, magic_microseconds, 2, 4,
         U32(0, 1), U32(0, 0), TRUE, 40),                 \* exactly minimum_size
    File(<<".", "p", "c", "a", "p">>, "reg", 42, magic_microseconds, 2, 4,
         U32(0, 2), U32(0, 0), TRUE, 40),                 \* five characters
    File(<<"a", "b", "p", "c", "a", "p">>, "reg", 42, magic_microseconds, 2, 4,
         U32(0, 3), U32(0, 0), TRUE, 40),                 \* no dot
    File(<<"c", ".", "p", "c", "a", "q">>, "reg", 42, magic_microseconds, 2, 4,
         U32(0, 4), U32(0, 0), TRUE, 40),                 \* another suffix
    File(<<"m", ".", "p", "c", "a", "p">>, "reg", 42, U32(54467, 45729), 2, 4,
         U32(0, 6), U32(0, 0), TRUE, 40),                 \* byte-swapped magic
    File(<<"v", ".", "p", "c", "a", "p">>, "reg", 42, magic_microseconds, 2, 3,
         U32(0, 7), U32(0, 0), TRUE, 40),                 \* version 2.3
    File(<<"d", ".", "p", "c", "a", "p">>, "dir", 42, magic_microseconds, 2, 4,
         U32(0, 8), U32(0, 0), TRUE, 40),                 \* a directory
    File(<<"l", ".", "p", "c", "a", "p">>, "none", 42, magic_microseconds, 2, 4,
         U32(0, 9), U32(0, 0), TRUE, 40),                 \* stat() fails
    File(<<"u", ".", "p", "c", "a", "p">>, "reg", 42, magic_microseconds, 2, 4,
         U32(0, 11), U32(0, 0), FALSE, 40),               \* open() fails
    File(<<"r", ".", "p", "c", "a", "p">>, "reg", 42, magic_microseconds, 2, 4,
         U32(0, 12), U32(0, 0), TRUE, 39)>>               \* read() returns 39

PoolIds == 1..Len(Pool)

\* The directory of three accepted inputs, two of them of equal timestamp.
ThreeInputs == {1, 2, 3}

\* The directories the runs start from: every one of at most MaxEntries
\* entries, and ThreeInputs.
Directories ==
  {d \in SUBSET PoolIds : Cardinality(d) <= MaxEntries} \cup {ThreeInputs}

\* The file argv[2] names when it is no entry of the directory.
Elsewhere == 0

\* Byte k of file e as it was when the program started; <<0, 0>> is the zero
\* byte ftruncate extends a file with, <<0, 1>> a byte of an older output.
Content(e, size) == [k \in 1..size |-> <<e, k - 1>>]

OldOutput == <<<<0, 1>>, <<0, 1>>, <<0, 1>>>>

Zeros(n) == [k \in 1..n |-> <<0, 0>>]

----------------------------------------------------------------------------
(* System calls on the file system *)

\* stat(): the call succeeds.
StatOK(f, p) == f[p].exists /\ f[p].kind # "none"

\* S_ISREG(sbuf.st_mode)
IsReg(f, p) == f[p].kind = "reg"

\* sbuf.st_size
StSize(f, p) == Len(f[p].data)

\* ftruncate(fd, n) on the file p: cut, or extended with zero bytes.
Ftruncate(f, p, n) ==
  [f EXCEPT ![p].data = IF n <= Len(@) THEN SubSeq(@, 1, n)
                        ELSE @ \o Zeros(n - Len(@))]

\* write(fd, bytes) at offset off of the file p.
WriteAt(f, p, off, bytes) ==
  [f EXCEPT ![p].data =
     LET new == IF off + Len(bytes) > Len(@) THEN off + Len(bytes) ELSE Len(@)
     IN  [k \in 1..new |-> IF k > off /\ k <= off + Len(bytes) THEN bytes[k - off]
                           ELSE IF k <= Len(@) THEN @[k] ELSE <<0, 0>>]]

\* The unlink left out.
UnlinkNothing(f, p) == f

\* unlink(p)
Unlink(f, p) == [f EXCEPT ![p].exists = FALSE, ![p].data = <<>>]

\* open(p, O_CREAT | O_WRONLY, 0644): without O_TRUNC an existing file keeps
\* what it holds.
OpenCreat(f, p) ==
  [f EXCEPT ![p] = [exists |-> TRUE, kind |-> "reg",
                    data |-> IF @.exists THEN @.data ELSE <<>>]]

\* open(p, O_CREAT | O_TRUNC | O_WRONLY, 0644), succeeding: the file exists and
\* is empty.
OpenCreatTrunc(f, p) ==
  [f EXCEPT ![p] = [exists |-> TRUE, kind |-> "reg", data |-> <<>>]]

\* open(p, O_RDWR | O_TRUNC): the file is emptied.
OpenRdWrTrunc(f, p) == [f EXCEPT ![p].data = <<>>]

\* open(p, O_RDONLY), succeeding: the file is left as it is.
OpenRdOnly(f, p) == f

\* A descriptor, directory handle or mapping of kind k is opened, or released.
Acquire(o, k) == [o EXCEPT ![k] = @ + 1]

Release(o, k) == [o EXCEPT ![k] = @ - 1]

----------------------------------------------------------------------------
(* The directory scanner's name test *)

UpperCase == <<"A", "B", "C", "D", "E", "F", "G", "H", "I", "J", "K", "L", "M",
               "N", "O", "P", "Q", "R", "S", "T", "U", "V", "W", "X", "Y", "Z">>

LowerCase == <<"a", "b", "c", "d", "e", "f", "g", "h", "i", "j", "k", "l", "m",
               "n", "o", "p", "q", "r", "s", "t", "u", "v", "w", "x", "y", "z">>

tolower(c) ==
  IF \E k \in 1..Len(UpperCase) : UpperCase[k] = c
  THEN LowerCase[CHOOSE k \in 1..Len(UpperCase) : UpperCase[k] = c]
  ELSE c

\* strcmp(s1, s2): the comparison without the lowering.
strcmp(s1, s2) == IF s1 = s2 THEN 0 ELSE 1

\* strcasecmp(s1, s2): 0 when the two strings are equal once lowered.
strcasecmp(s1, s2) ==
  IF Len(s1) = Len(s2) /\ \A k \in 1..Len(s1) : tolower(s1[k]) = tolower(s2[k])
  THEN 0
  ELSE 1

\* (len > 5) && (d_name[len - 5] == '.') &&
\* (strcasecmp(d_name + len - 4, "pcap") == 0)
IsPcapName(name) ==
  LET len == Len(name)
  IN  /\ len > 5
      /\ name[len - 4] = "."
      /\ strcasecmp(SubSeq(name, len - 3, len), <<"p", "c", "a", "p">>) = 0

\* stat succeeded, the entry is a regular file and is not too small.
IsCandidateFile(f, e) ==
  /\ StatOK(f, e)
  /\ IsReg(f, e)
  /\ StSize(f, e) > minimum_size

----------------------------------------------------------------------------
(* get_first_timestamp *)

\* read(fd, buf, minimum_size): the number of bytes returned.
ReadLen(f, e) ==
  LET have == IF Len(f[e].data) < minimum_size THEN Len(f[e].data) ELSE minimum_size
  IN  IF Pool[e].readLen < have THEN Pool[e].readLen ELSE have

\* The magic and version test on the file header.
HeaderOK(e) ==
  /\ Pool[e].magic = magic_microseconds \/ Pool[e].magic = magic_nanoseconds
  /\ Pool[e].vmaj = version_major
  /\ Pool[e].vmin = version_minor

\* (pkthdr->ts.tv_sec * 1000000) + pkthdr->ts.tv_usec: without the ull suffix
\* the arithmetic is done in 32 bits and only its result widened.
Timestamp32(hdr) ==
  Trunc(Trunc(Add(Trunc(Mul(hdr.sec, Million), 4), hdr.usec), 4), 8)

\* (pkthdr->ts.tv_sec * 1000000ull) + pkthdr->ts.tv_usec, in uint64_t.
Timestamp(hdr) ==
  Trunc(Add(Trunc(Mul(Trunc(hdr.sec, 8), Million), 8), Trunc(hdr.usec, 8)), 8)

----------------------------------------------------------------------------
(* pcap::files *)

\* The comparison with its two results exchanged.
compare_reversed(f1, f2) ==
  IF Less(f1.timestamp, f2.timestamp) THEN 1
  ELSE IF Less(f2.timestamp, f1.timestamp) THEN -1
  ELSE 0

\* files::compare
compare(f1, f2) ==
  IF Less(f1.timestamp, f2.timestamp) THEN -1
  ELSE IF Less(f2.timestamp, f1.timestamp) THEN 1
  ELSE 0

\* The sequences qsort may leave: a rearrangement of fl in which no entry
\* compares greater than a later one.
Sorted(fl) ==
  LET n == Len(fl)
      perms == {p \in [1..n -> 1..n] : \A a, b \in 1..n : a # b => p[a] # p[b]}
  IN  {[k \in 1..n |-> fl[p[k]]] : p \in
         {q \in perms : \A a, b \in 1..n : a < b => compare(fl[q[a]], fl[q[b]]) <= 0}}

\* files::add, the allocation having succeeded.
add(fl, filename, size, timestamp) ==
  Append(fl, [filename |-> filename, filesize |-> size, timestamp |-> timestamp])

\* Every input copied from its first byte.
CopyOffsetNone(i) == 0

\* (i > 0) ? sizeof(pcap::pcap_file_header) : 0
CopyOffset(i) == IF i > 0 THEN FileHeaderSize ELSE 0

\* The counts write() may return for rem bytes asked: all of them, or fewer.
WriteCounts(rem) == {n \in {ShortWrite, rem} : n >= 1 /\ n <= rem}

----------------------------------------------------------------------------
(* main *)

TsIdle == [phase |-> "idle"]

NoneOpen == [k \in {"out", "in", "dir", "map"} |-> 0]

InitFile(p) ==
  IF p = Elsewhere
  THEN [exists |-> TRUE, kind |-> "reg", data |-> OldOutput]
  ELSE [exists |-> TRUE, kind |-> Pool[p].kind,
        data |-> IF Pool[p].kind = "reg" THEN Content(p, Pool[p].size) ELSE <<>>]

\* The file system when the program started.
fs0 == [p \in dir \cup {Elsewhere} |-> InitFile(p)]

Init ==
  /\ pc = "start"
  /\ argc \in {2, 3}
  /\ dir \in Directories
  /\ outPath \in {Elsewhere} \cup {e \in dir : Pool[e].kind = "reg"}
  /\ fs = [p \in dir \cup {Elsewhere} |-> InitFile(p)]
  /\ unread = {}
  /\ cur = 0
  /\ files = <<>>
  /\ filesize = 0
  /\ idx = 0
  /\ written = 0
  /\ outOff = 0
  /\ open = NoneOpen
  /\ exitStatus = 0
  /\ diag = ""
  /\ ret = "none"
  /\ created = FALSE
  /\ presize = -1
  /\ scanned = {}
  /\ allocFailed = FALSE
  /\ readdirFailed = FALSE
  /\ ts = TsIdle

\* return status, after the diagnostic msg.
Return(status, msg) ==
  /\ pc' = "exit"
  /\ exitStatus' = status
  /\ diag' = msg

\* close(fd); unlink(argv[2]); return -1, with o the resources still open.
FailAfterCreate(o, msg) ==
  /\ open' = Release(o, "out")
  /\ fs' = Unlink(fs, outPath)
  /\ Return(-1, msg)

\* Lines 163-166: the usage check and the stat of argv[1].
Start ==
  /\ pc = "start"
  /\ \/ /\ argc # 3
        /\ Return(-1, "usage")
     \/ /\ argc = 3
        /\ \E isDir \in BOOLEAN :
             IF isDir
             THEN pc' = "open_out" /\ UNCHANGED <<exitStatus, diag>>
             ELSE Return(-1, "notdir")
  /\ UNCHANGED <<argc, dir, outPath, fs, unread, cur, files, filesize, idx,
                 written, outOff, open, ret, created, presize, scanned,
                 allocFailed, readdirFailed, ts>>

\* Line 169: the output file is opened for writing.
OpenOutput ==
  /\ pc = "open_out"
  /\ \E ok \in BOOLEAN :
       IF ok
       THEN /\ fs' = OpenCreatTrunc(fs, outPath)
            /\ open' = Acquire(open, "out")
            /\ created' = TRUE
            /\ outOff' = 0
            /\ pc' = "opendir"
            /\ UNCHANGED <<exitStatus, diag>>
       ELSE /\ Return(-1, "create")
            /\ UNCHANGED <<fs, open, created, outOff>>
  /\ UNCHANGED <<argc, dir, outPath, unread, cur, files, filesize, idx,
                 written, ret, presize, scanned, allocFailed, readdirFailed, ts>>

\* Lines 172-176: the directory is opened.
OpenDir ==
  /\ pc = "opendir"
  /\ \E ok \in BOOLEAN :
       IF ok
       THEN /\ open' = Acquire(open, "dir")
            /\ unread' = dir
            /\ filesize' = FileHeaderSize
            /\ pc' = "scan"
            /\ UNCHANGED <<fs, exitStatus, diag>>
       ELSE /\ FailAfterCreate(open, "opendir")
            /\ UNCHANGED <<unread, filesize>>
  /\ UNCHANGED <<argc, dir, outPath, cur, files, idx, written, outOff, ret,
                 created, presize, scanned, allocFailed, readdirFailed, ts>>

\* Lines 179-200 and 287: readdir returns the entry e; it is tested and, when
\* it passes, opened by get_first_timestamp.
ReadDirEntry(e) ==
  /\ pc = "scan"
  /\ e \in unread
  /\ unread' = unread \ {e}
  /\ IF IsCandidateFile(fs, e) /\ IsPcapName(Pool[e].name) /\ Pool[e].canOpen
     THEN /\ fs' = OpenRdOnly(fs, e)
          /\ open' = Acquire(open, "in")
          /\ cur' = e
          /\ pc' = "probe"
          /\ UNCHANGED scanned
     ELSE /\ scanned' = scanned \cup {e}
          /\ UNCHANGED <<fs, open, cur, pc>>
  /\ UNCHANGED <<argc, dir, outPath, files, filesize, idx, written, outOff,
                 exitStatus, diag, ret, created, presize, allocFailed,
                 readdirFailed, ts>>

\* Lines 290-316 and 200-215: the header is read and tested, the descriptor
\* closed, and an accepted file added to the list.
ProbeRead ==
  /\ pc = "probe"
  /\ IF ReadLen(fs, cur) = minimum_size /\ HeaderOK(cur)
     THEN \E allocOK \in BOOLEAN :
            IF allocOK
            THEN /\ files' = add(files, cur, StSize(fs, cur),
                                 Timestamp(Pool[cur]))
                 /\ filesize' = filesize + (StSize(fs, cur) - FileHeaderSize)
                 /\ open' = Release(open, "in")
                 /\ scanned' = scanned \cup {cur}
                 /\ pc' = "scan"
                 /\ UNCHANGED <<fs, exitStatus, diag, allocFailed>>
            ELSE /\ allocFailed' = TRUE
                 /\ FailAfterCreate(Release(Release(open, "in"), "dir"), "alloc")
                 /\ scanned' = scanned \cup {cur}
                 /\ UNCHANGED <<files, filesize>>
     ELSE /\ open' = Release(open, "in")
          /\ scanned' = scanned \cup {cur}
          /\ pc' = "scan"
          /\ UNCHANGED <<fs, files, filesize, exitStatus, diag, allocFailed>>
  /\ cur' = 0
  /\ UNCHANGED <<argc, dir, outPath, unread, idx, written, outOff, ret,
                 created, presize, readdirFailed, ts>>

\* Lines 220-224 and 253-264: the directory is closed, the output pre-sized
\* and the list sorted.
EndOfScan ==
  /\ \E ok \in BOOLEAN :
       IF ok
       THEN /\ fs' = Ftruncate(fs, outPath, filesize)
            /\ presize' = filesize
            /\ files' \in Sorted(files)
            /\ idx' = 0
            /\ open' = Release(open, "dir")
            /\ pc' = "copy"
            /\ UNCHANGED <<exitStatus, diag>>
       ELSE /\ FailAfterCreate(Release(open, "dir"), "truncate")
            /\ UNCHANGED <<presize, files, idx>>
  /\ UNCHANGED <<argc, dir, outPath, unread, cur, filesize, written, outOff,
                 ret, created, scanned, allocFailed, ts>>

\* Line 179: readdir returns NULL at the end of the directory.
ReadDirEnd ==
  /\ pc = "scan"
  /\ unread = {}
  /\ UNCHANGED readdirFailed
  /\ EndOfScan

\* Line 179: readdir returns NULL on an error, which the loop does not tell
\* from the end of the directory.
ReadDirError ==
  /\ pc = "scan"
  /\ unread # {}
  /\ readdirFailed' = TRUE
  /\ EndOfScan

\* The entry main's loop is copying: files.get(idx).
CurFile == files[idx + 1]

\* Lines 227 and 250-252: files.get(i) returns nullptr; the output is closed.
CopyEnd ==
  /\ pc = "copy"
  /\ idx >= Len(files)
  /\ open' = Release(open, "out")
  /\ Return(0, "")
  /\ UNCHANGED <<argc, dir, outPath, fs, unread, cur, files, filesize, idx,
                 written, outOff, ret, created, presize, scanned, allocFailed,
                 readdirFailed, ts>>

\* Lines 228-231 and 329: copy_file opens the input; on failure it returns
\* false and main gives up (lines 232-246).
CopyOpen ==
  /\ pc = "copy"
  /\ idx < Len(files)
  /\ \E ok \in BOOLEAN :
       IF ok
       THEN /\ fs' = OpenRdOnly(fs, CurFile.filename)
            /\ open' = Acquire(open, "in")
            /\ pc' = "mmap"
            /\ UNCHANGED <<exitStatus, diag>>
       ELSE FailAfterCreate(open, "copy")
  /\ UNCHANGED <<argc, dir, outPath, unread, cur, files, filesize, idx,
                 written, outOff, ret, created, presize, scanned, allocFailed,
                 readdirFailed, ts>>

\* The close left out on the path where the mapping failed.
CloseUnmappedLeak(o) == o

\* Line 365: close(infd), the mapping having failed.
CloseUnmapped(o) == Release(o, "in")

\* Lines 332-341 and 365: the input is mapped; on failure the input is closed.
CopyMmap ==
  /\ pc = "mmap"
  /\ \E ok \in BOOLEAN :
       IF ok
       THEN /\ open' = Acquire(open, "map")
            /\ written' = 0
            /\ pc' = "write"
            /\ UNCHANGED <<fs, exitStatus, diag>>
       ELSE /\ FailAfterCreate(CloseUnmapped(open), "copy")
            /\ UNCHANGED written
  /\ UNCHANGED <<argc, dir, outPath, unread, cur, files, filesize, idx,
                 outOff, ret, created, presize, scanned, allocFailed,
                 readdirFailed, ts>>

\* const uint64_t to_copy = filesize - offset;
ToCopy == CurFile.filesize - CopyOffset(idx)

\* The n bytes at ptr: the mapping of the input, from offset + written.
AtPtr(n) ==
  SubSeq(fs[CurFile.filename].data,
         CopyOffset(idx) + written + 1, CopyOffset(idx) + written + n)

\* Lines 345-353: write returns n > 0.
WriteSome ==
  /\ pc = "write"
  /\ \E n \in WriteCounts(ToCopy - written) :
       /\ fs' = WriteAt(fs, outPath, outOff, AtPtr(n))
       /\ outOff' = outOff + n
       /\ written' = written + n
       /\ IF written + n = ToCopy
          THEN /\ open' = Release(Release(open, "map"), "in")
               /\ idx' = idx + 1
               /\ pc' = "copy"
          ELSE UNCHANGED <<open, idx, pc>>
  /\ ret' = "pos"
  /\ UNCHANGED <<argc, dir, outPath, unread, cur, files, filesize,
                 exitStatus, diag, created, presize, scanned, allocFailed,
                 readdirFailed, ts>>

\* Lines 354-355: write returns -1 with errno EINTR; the loop goes round.
WriteInterrupted ==
  /\ pc = "write"
  /\ ret' = "eintr"
  /\ UNCHANGED <<pc, argc, dir, outPath, fs, unread, cur, files, filesize,
                 idx, written, outOff, open, exitStatus, diag, created, presize,
                 scanned, allocFailed, readdirFailed, ts>>

\* Lines 354-360: write returns -1 with another errno; copy_file returns false.
WriteError ==
  /\ pc = "write"
  /\ ret' = "error"
  /\ FailAfterCreate(Release(Release(open, "map"), "in"), "copy")
  /\ UNCHANGED <<argc, dir, outPath, unread, cur, files, filesize, idx,
                 written, outOff, created, presize, scanned, allocFailed,
                 readdirFailed, ts>>

\* Lines 345, 354 and 362: write returns 0, which is neither > 0 nor < 0; the
\* loop goes round.
WriteZero ==
  /\ pc = "write"
  /\ ret' = "zero"
  /\ UNCHANGED <<pc, argc, dir, outPath, fs, unread, cur, files, filesize,
                 idx, written, outOff, open, exitStatus, diag, created, presize,
                 scanned, allocFailed, readdirFailed, ts>>

Next ==
  \/ Start
  \/ OpenOutput
  \/ OpenDir
  \/ \E e \in PoolIds : ReadDirEntry(e)
  \/ ProbeRead
  \/ ReadDirEnd
  \/ ReadDirError
  \/ CopyEnd
  \/ CopyOpen
  \/ CopyMmap
  \/ WriteSome
  \/ WriteInterrupted
  \/ WriteError
  \/ WriteZero

Spec == Init /\ [][Next]_vars

----------------------------------------------------------------------------
(* The timestamp and the comparison on sample headers *)

SecSamples ==
  {U32(0, 0), U32(0, 5), U32(0, 10), U32(0, 4294), U32(0, 4295),
   U32(65535, 65535)}

UsecSamples ==
  {U32(0, 0), U32(7, 41248), U32(15258, 51711), U32(65535, 65535)}

Headers ==
  [magic : {magic_microseconds, magic_nanoseconds}, sec : SecSamples,
   usec : UsecSamples]

InitTs ==
  /\ pc = "idle"
  /\ argc = 3
  /\ dir = {}
  /\ outPath = Elsewhere
  /\ fs = [p \in {Elsewhere} |-> InitFile(p)]
  /\ unread = {}
  /\ cur = 0
  /\ files = <<>>
  /\ filesize = 0
  /\ idx = 0
  /\ written = 0
  /\ outOff = 0
  /\ open = NoneOpen
  /\ exitStatus = 0
  /\ diag = ""
  /\ ret = "none"
  /\ created = FALSE
  /\ presize = -1
  /\ scanned = {}
  /\ allocFailed = FALSE
  /\ readdirFailed = FALSE
  /\ ts \in [phase : {"headers"}, a : Headers, b : Headers,
             ta : {<<>>}, tb : {<<>>}, cmp : {0}]

\* get_first_timestamp on the two headers (lines 302-308).
TsProbe ==
  /\ ts.phase = "headers"
  /\ ts' = [ts EXCEPT !.phase = "probed",
                      !.ta = Timestamp(ts.a),
                      !.tb = Timestamp(ts.b)]
  /\ UNCHANGED mainVars

\* files::compare on the two entries (lines 137-149).
TsCompare ==
  /\ ts.phase = "probed"
  /\ ts' = [ts EXCEPT !.phase = "compared",
                      !.cmp = compare([timestamp |-> ts.ta], [timestamp |-> ts.tb])]
  /\ UNCHANGED mainVars

NextTs ==
  \/ TsProbe
  \/ TsCompare

SpecTs == InitTs /\ [][NextTs]_vars

----------------------------------------------------------------------------
(* What the claims speak of, stated apart from the code's own operators *)

\* The files the run accepted: the Input Entries.
Accepted == {files[k].filename : k \in 1..Len(files)}

\* seconds * 1,000,000 + sub_seconds as a natural number, of as many digits as
\* it takes.
ExactTimestamp(hdr) == Norm(Add(Mul(hdr.sec, <<64, 66, 15>>), hdr.usec))

\* x < y for two natural numbers without leading zero digits.
NatLess(x, y) == Len(x) < Len(y) \/ (Len(x) = Len(y) /\ Less(x, y))

\* The first-packet timestamp of entry e.
FirstTs(e) == ExactTimestamp(Pool[e])

\* The bytes of entry e when the program started, and those after its header.
WholeOf(e) == fs0[e].data

BodyOf(e) == SubSeq(fs0[e].data, FileHeaderSize + 1, Len(fs0[e].data))

RECURSIVE Bodies(_, _)
Bodies(order, k) ==
  IF k > Len(order) THEN <<>> ELSE BodyOf(order[k]) \o Bodies(order, k + 1)

Merged(order) == WholeOf(order[1]) \o Bodies(order, 2)

\* The arrangements of the set S in a sequence, each member once.
Orders(S) ==
  {o \in [1..Cardinality(S) -> S] :
     \A a, b \in 1..Cardinality(S) : a # b => o[a] # o[b]}

Ascending(order) ==
  \A a, b \in 1..Len(order) : a < b => ~NatLess(FirstTs(order[b]), FirstTs(order[a]))

\* Where byte k of entry e lies in the output (0: nowhere).
PosOf(e, k) ==
  LET out == fs[outPath].data
  IN  IF \E j \in 1..Len(out) : out[j] = <<e, k>>
      THEN CHOOSE j \in 1..Len(out) : out[j] = <<e, k>>
      ELSE 0

Succeeded == pc = "exit" /\ exitStatus = 0

RECURSIVE SumBodies(_)
SumBodies(fl) ==
  IF fl = <<>> THEN 0
  ELSE (Len(fs0[Head(fl).filename].data) - FileHeaderSize) + SumBodies(Tail(fl))

\* 24 + the sum over the accepted inputs of (size - 24).
ExpectedSize == FileHeaderSize + SumBodies(files)

----------------------------------------------------------------------------
(* C1 *)

\* C1: on a successful run with at least one accepted input the output is the
\* whole of an accepted input of smallest first-packet timestamp followed by
\* the body of every other accepted input, each once, in an order ascending
\* by timestamp; the body of an input of smaller timestamp lies wholly before
\* that of one of greater timestamp; with one input the output equals it.
C1_MergedOutput ==
  (Succeeded /\ files # <<>>) =>
    /\ Len(files) = Cardinality(Accepted)
    /\ fs[outPath].exists
    /\ \E order \in Orders(Accepted) :
         Ascending(order) /\ fs[outPath].data = Merged(order)
    /\ \A a, b \in Accepted :
         NatLess(FirstTs(a), FirstTs(b)) =>
           /\ PosOf(a, FileHeaderSize) > 0
           /\ PosOf(a, Len(fs0[a].data) - 1) < PosOf(b, FileHeaderSize)
    /\ Len(files) = 1 => fs[outPath].data = fs0[files[1].filename].data

\* A successful merge of at least two inputs of different timestamps.
C1_Witness ==
  /\ Succeeded
  /\ Len(files) >= 2
  /\ \E a, b \in Accepted : NatLess(FirstTs(a), FirstTs(b))

----------------------------------------------------------------------------
(* C2 *)

\* C2: the output is pre-sized to 24 + the sum of (size - 24) over the accepted
\* inputs before a copy writes a byte; the bytes written never exceed that
\* length; on success the output's size is that length, 24 with no input.
C2_PreSized ==
  /\ outOff > 0 => presize = ExpectedSize
  /\ pc \in {"copy", "mmap", "write"} =>
       /\ presize = ExpectedSize
       /\ outOff <= presize
       /\ Len(fs[outPath].data) = presize
  /\ Succeeded =>
       /\ Len(fs[outPath].data) = ExpectedSize
       /\ files = <<>> => Len(fs[outPath].data) = FileHeaderSize
       /\ files # <<>> => outOff = ExpectedSize

\* The copy of a second input is under way after a short write.
C2_Witness ==
  /\ pc = "write"
  /\ idx >= 1
  /\ written > 0
  /\ outOff < presize

----------------------------------------------------------------------------
(* C3 *)

----------------------------------------------------------------------------
(* C4 *)

\* A step of the run failed: a diagnostic was printed, or readdir failed.
SomethingFailed == diag # "" \/ allocFailed \/ readdirFailed

\* C4: the exit status is 0 only when the merge succeeded; every failure,
\* a failure while iterating the directory among them, yields a non-zero one.
C4_ExitStatus ==
  pc = "exit" => (exitStatus = 0 <=> ~SomethingFailed)

----------------------------------------------------------------------------
(* C5 *)

\* The name rule of the scanner: at least six characters, the last five a dot
\* and "pcap" in any letter case.
NameRule(name) ==
  /\ Len(name) >= 6
  /\ name[Len(name) - 4] = "."
  /\ name[Len(name) - 3] \in {"p", "P"}
  /\ name[Len(name) - 2] \in {"c", "C"}
  /\ name[Len(name) - 1] \in {"a", "A"}
  /\ name[Len(name)] \in {"p", "P"}

\* Entry e, as the file system f holds it, satisfies the selection rules.
SelectionRules(f, e) ==
  /\ f[e].exists
  /\ f[e].kind = "reg"
  /\ Len(f[e].data) > 40
  /\ NameRule(Pool[e].name)

\* C5 as stated: no run changes the contents, size or existence of a file of
\* the directory that satisfied the selection rules when the program started.
C5_InputsNeverModified ==
  \A e \in dir : SelectionRules(fs0, e) => fs[e] = fs0[e]

\* C5 amended: the same, of every such file but the one the output path names.
C5_OtherInputsNeverModified ==
  \A e \in dir \ {outPath} : SelectionRules(fs0, e) => fs[e] = fs0[e]

\* A run has ended that copied an input while the output path named another
\* file of the directory that satisfied the rules.
C5_Witness ==
  /\ pc = "exit"
  /\ outPath \in dir
  /\ SelectionRules(fs0, outPath)
  /\ idx >= 1
  /\ \E e \in Accepted : SelectionRules(fs0, e)

----------------------------------------------------------------------------
(* C6 *)

\* Entry e, as the scan finds it, meets every condition the claim lists.
MeetsAll(e) ==
  /\ SelectionRules(fs, e)
  /\ Pool[e].canOpen
  /\ Pool[e].readLen = 40
  /\ Pool[e].magic \in {U32(41394, 50132), U32(41394, 15437)}
  /\ Pool[e].vmaj = 2
  /\ Pool[e].vmin = 4

\* The entries the step has dealt with.
Dealt == scanned' \ scanned

\* C6 as stated: an entry becomes an Input Entry exactly when it meets every
\* condition; any other entry is skipped without diagnostic or failure.
C6_AcceptedIffMeetsAll ==
  [][\A e \in Dealt :
       /\ (e \in Accepted') <=> MeetsAll(e)
       /\ ~MeetsAll(e) => (pc' = "scan" /\ diag' = "" /\ exitStatus' = 0)]_vars

\* C6 amended: an entry becomes an Input Entry exactly when it meets every
\* condition and adding it to the Input Set succeeds; when that allocation
\* fails the run ends with the allocation diagnostic; any entry that does not
\* meet every condition is skipped without diagnostic or failure.
C6_AcceptedIffMeetsAllAndAdded ==
  [][\A e \in Dealt :
       /\ (e \in Accepted') <=> (MeetsAll(e) /\ ~allocFailed')
       /\ (MeetsAll(e) /\ allocFailed') => (pc' = "exit" /\ diag' = "alloc")
       /\ ~MeetsAll(e) => (pc' = "scan" /\ diag' = "" /\ exitStatus' = 0)]_vars

\* The scan has accepted an upper-case name and skipped another entry.
C6_Witness ==
  /\ pc = "scan"
  /\ \E a, b \in scanned :
       /\ a \in Accepted
       /\ Pool[a].name[Len(Pool[a].name)] = "P"
       /\ b \notin Accepted

----------------------------------------------------------------------------
(* C7 *)

\* C7: a write that returns zero terminates the copy with failure.
C7_ZeroWriteFails ==
  ret = "zero" => (pc = "exit" /\ exitStatus # 0)

----------------------------------------------------------------------------
(* C8 *)

\* The two headers of scenario 3: microsecond magic (10, 500000) and
\* nanosecond magic (5, 999999999).
HeaderM == [magic |-> magic_microseconds, sec |-> U32(0, 10), usec |-> U32(7, 41248)]

HeaderN == [magic |-> magic_nanoseconds, sec |-> U32(0, 5), usec |-> U32(15258, 51711)]

\* C8: for both magics the probe's timestamp is seconds * 1,000,000 +
\* sub_seconds exactly, in 64 bits, the sub-second field taken raw; the
\* comparison is on that value; HeaderM sorts before HeaderN.
C8_TimestampExact ==
  /\ ts.phase \in {"probed", "compared"} =>
       /\ Len(ts.ta) = 8 /\ Norm(ts.ta) = ExactTimestamp(ts.a)
       /\ Len(ts.tb) = 8 /\ Norm(ts.tb) = ExactTimestamp(ts.b)
  /\ ts.phase = "compared" =>
       /\ ts.cmp = -1 <=> NatLess(ExactTimestamp(ts.a), ExactTimestamp(ts.b))
       /\ ts.cmp = 1 <=> NatLess(ExactTimestamp(ts.b), ExactTimestamp(ts.a))
       /\ ts.cmp = 0 <=> ExactTimestamp(ts.a) = ExactTimestamp(ts.b)
       /\ (ts.a = HeaderM /\ ts.b = HeaderN) => ts.cmp = -1

\* HeaderM and HeaderN have been probed and compared.
C8_Witness ==
  /\ ts.phase = "compared"
  /\ ts.a = HeaderM
  /\ ts.b = HeaderN
  /\ ts.cmp = -1

----------------------------------------------------------------------------
(* C9 *)

\* C9: at most one input descriptor, one mapping and one output descriptor
\* are open at any point; when the probe or the copy has returned none of
\* theirs is open, and when main has returned nothing is.
C9_Resources ==
  /\ \A k \in DOMAIN open : open[k] \in {0, 1}
  /\ pc \in {"scan", "copy", "exit"} => (open["in"] = 0 /\ open["map"] = 0)
  /\ pc = "exit" => open = NoneOpen

\* main has returned after the open or the mapping of a later input failed.
C9_Witness ==
  /\ pc = "exit"
  /\ diag = "copy"
  /\ idx >= 1
  /\ ret = "pos"

----------------------------------------------------------------------------
(* C10 *)

\* C10: the output file is never accepted as an input of the run, and while
\* the directory is scanned its size is 0.
C10_OutputNeverInput ==
  /\ outPath \notin Accepted
  /\ pc \in {"scan", "probe"} => StSize(fs, outPath) = 0

\* The scan has dealt with the output file, an entry of the directory that
\* met every condition when the program started.
C10_Witness ==
  /\ outPath \in dir
  /\ outPath \in scanned
  /\ SelectionRules(fs0, outPath)
  /\ Pool[outPath].canOpen
  /\ Pool[outPath].readLen = 40
  /\ HeaderOK(outPath)

====
